---- MODULE Spec2Model ----
(***************************************************************************)
(* Adaptive risk-governed mode controller of the trading bot.              *)
(*                                                                         *)
(*   src/config.py                 MODE, ALLOW_LIVE, thresholds            *)
(*   src/execution/promotion.py    stats, timers, promotion / demotion     *)
(*   src/execution/governor.py     risk_check, allowed_size                *)
(*   src/execution/executor.py     execute                                 *)
(*   src/chimera-bot/execution/executor.py, platforms/ndax_live.py,        *)
(*   platforms/ndax_test.py        the class-based executor and adapters   *)
(*                                                                         *)
(* Time is counted in whole minutes.  Fractions (win rates, drawdown,      *)
(* limits) are counted in percent; a win rate is kept as the pair          *)
(* <<numerator, denominator>> so that comparisons are exact.               *)
(***************************************************************************)
EXTENDS Integers, Sequences, FiniteSets, TLC

\* ---------------------------------------------------------------- bounds
MaxTime == 210
MaxTrades == 9
TickMinutes == 15
MaxExecutions == 3
MaxChTime == 60
ChTickSeconds == 30
MaxGoodRuns == 4
MaxDailyTrades == 20
MaxOpenPositions == 5
MaxDailyLoss == 5
MaxDays == 1
MaxRuns == 2
MaxOrders == 12
MaxRateTime == 120
MaxLoopTime == 76
SleepMinutes == 1

\* ------------------------------------------------- src/config.py values
RISK_capital_cap == 50
RISK_max_position == 5
RISK_max_trades_per_hour == 100
RISK_hard_stop_loss == 30
RISK_max_daily_loss == 50
PROMOTION_min_minutes == 15
PROMOTION_min_trades == 8
PROMOTION_min_win_rate == 70
PROMOTION_skip_after_good_runs == 3
DEMOTION_min_live_minutes == 60
DEMOTION_min_win_rate == 60
DEMOTION_retraining_minutes == 15
DEMOTION_good_run_threshold == 75

\* ---------------------------------- src/chimera-bot/config.py, governor.py
CH_max_position_size == 100
CH_max_daily_loss == 5
CH_stop_loss_percent == 2
CH_take_profit_percent == 5
CH_max_open_positions == 5
CH_max_trades_per_day == 20
MIN_CONFIDENCE == 60

None == 0 - 1

Modes == {"PAPER", "LIVE_LIMITED", "HALTED"}

VARIABLES
    MODE,                   \* config.MODE, the attribute promotion.py writes
    executor_MODE,          \* the name MODE bound in executor.py at import
    ALLOW_LIVE,             \* config.ALLOW_LIVE
    now,                    \* datetime.now(), minutes since process start
    START_TIME,
    LIVE_START_TIME,
    RETRAINING_START_TIME,
    stats,
    last_call,              \* the last call, the mode it found, what it did
    demoted_at,             \* time of the last demotion (None: never)
    live_sessions,          \* full good live sessions since the last promotion
    session_mark,           \* start of the live session now being measured
    live_since,             \* since when config.MODE is LIVE_LIMITED
    ch,                     \* chimera-bot Executor with its platform adapter
    loop                    \* main(): its position in the cycle and its locals

vars == <<MODE, executor_MODE, ALLOW_LIVE, now, START_TIME, LIVE_START_TIME,
          RETRAINING_START_TIME, stats, last_call, demoted_at,
          live_sessions, session_mark, live_since, ch, loop>>

ctlVars == <<MODE, executor_MODE, ALLOW_LIVE, now, START_TIME, LIVE_START_TIME,
             RETRAINING_START_TIME, stats, last_call, demoted_at,
             live_sessions, session_mark, live_since, loop>>

\* what the functions of promotion.py and executor.py can write
modVars == <<MODE, executor_MODE, ALLOW_LIVE, now, START_TIME, LIVE_START_TIME,
             RETRAINING_START_TIME, stats, last_call, demoted_at,
             live_sessions, session_mark, live_since, ch>>

\* ------------------------------------------------------------ promotion.py
InitStats ==
    [paper_trades |-> 0, wins |-> 0, losses |-> 0, drawdown |-> 0,
     daily_pnl |-> 0, trades_last_hour |-> 0, live_trades |-> 0,
     live_wins |-> 0, live_losses |-> 0, mode_switches |-> 0,
     consecutive_good_runs |-> 0, current_session_start |-> None,
     can_skip_paper |-> FALSE]

\* variant: the quotient is taken whatever the total is
Rate_unguarded(w, l) == <<w, w + l>>

Rate(w, l) == IF w + l > 0 THEN <<w, w + l>> ELSE <<0, 1>>

\* r >= pct/100 and r < pct/100 for a rate r = <<num, den>>
RateGE(r, pct) == r[1] * 100 >= pct * r[2]
RateLT(r, pct) == r[1] * 100 < pct * r[2]

win_rate(s) == Rate(s.wins, s.losses)

live_win_rate(s) == Rate(s.live_wins, s.live_losses)

Minutes(t, since) == t - since

\* variant: the runtime must exceed min_minutes
StandardCriteria_strict(minMinutes, minTrades, minWinRate, stopLoss, runtime, s) ==
    /\ runtime > minMinutes
    /\ s.paper_trades >= minTrades
    /\ RateGE(win_rate(s), minWinRate)
    /\ s.drawdown <= stopLoss

\* the four standard criteria of can_promote
StandardCriteria(minMinutes, minTrades, minWinRate, stopLoss, runtime, s) ==
    /\ runtime >= minMinutes
    /\ s.paper_trades >= minTrades
    /\ RateGE(win_rate(s), minWinRate)
    /\ s.drawdown <= stopLoss

SkipPath(s) == s.consecutive_good_runs >= PROMOTION_skip_after_good_runs

InRetraining(rst, t) ==
    /\ rst # None
    /\ Minutes(t, rst) < DEMOTION_retraining_minutes

\* variant: the retraining cooldown is checked before the fast-skip path
can_promote_cooldown_first(s, rst, st, t) ==
    IF InRetraining(rst, t) THEN FALSE
    ELSE IF SkipPath(s) THEN TRUE
    ELSE StandardCriteria(PROMOTION_min_minutes, PROMOTION_min_trades,
                          PROMOTION_min_win_rate, RISK_hard_stop_loss,
                          Minutes(t, st), s)

\* return value of can_promote()
can_promote(s, rst, st, t) ==
    IF SkipPath(s) THEN TRUE
    ELSE IF InRetraining(rst, t) THEN FALSE
    ELSE StandardCriteria(PROMOTION_min_minutes, PROMOTION_min_trades,
                          PROMOTION_min_win_rate, RISK_hard_stop_loss,
                          Minutes(t, st), s)

\* variant: can_promote() starts the paper record afresh
can_promote_stats_fresh(s) ==
    [s EXCEPT !.paper_trades = 0, !.wins = 0, !.losses = 0]

\* stats after can_promote()
can_promote_stats(s) ==
    IF SkipPath(s) THEN [s EXCEPT !.can_skip_paper = TRUE] ELSE s

\* variant: a cooldown that is over leaves the timer set
can_promote_rst_kept(s, rst, t) == rst

\* RETRAINING_START_TIME after can_promote()
can_promote_rst(s, rst, t) ==
    IF SkipPath(s) THEN rst
    ELSE IF rst # None /\ ~InRetraining(rst, t) THEN None
    ELSE rst

should_demote(s, lst, t) ==
    IF lst = None THEN FALSE
    ELSE IF Minutes(t, lst) < DEMOTION_min_live_minutes THEN FALSE
    ELSE IF RateLT(live_win_rate(s), DEMOTION_min_win_rate) THEN TRUE
    ELSE IF s.drawdown >= RISK_hard_stop_loss THEN TRUE
    ELSE FALSE

\* ------------------------------------------------------------ chimera-bot
\* A symbol is kept as the list symbol.split('/') yields.
BTC_USD == <<"BTC", "USD">>
LTC_USD == <<"LTC", "USD">>
ChSymbols == {BTC_USD, LTC_USD}
ChActions == {"buy", "sell"}
ChPrices == {100}
\* a signal's position_size is counted in 1/1000, a confidence in 1/100, and
\* their product, the order quantity, in 1/100000; so is the paper ledger
SizeUnit == 100000
ChQuantities == {1000}

RATE_LIMIT_ORDERS == 10
RATE_LIMIT_SECONDS == 60

\* NDAXTest.__init__: the paper ledger
InitPaperBalance == [a \in {"USD", "BTC", "ETH"} |->
                        IF a = "USD" THEN 10000 * SizeUnit ELSE 0]

\* ------------------------------------- chimera-bot/execution/governor.py
\* dict.get(key, default): an absent key is kept as None
Get(v, default) == IF v = None THEN default ELSE v

\* Governor.__init__ on day d
InitGovernor(d) ==
    [daily_trades |-> 0, daily_loss |-> 0, open_positions |-> 0,
     last_reset |-> d]

\* variant: the open positions are forgotten with the day
check_daily_reset_positions(g, today) ==
    IF today > g.last_reset
    THEN [g EXCEPT !.daily_trades = 0, !.daily_loss = 0,
                   !.open_positions = 0, !.last_reset = today]
    ELSE g

\* Governor._check_daily_reset
check_daily_reset(g, today) ==
    IF today > g.last_reset
    THEN [g EXCEPT !.daily_trades = 0, !.daily_loss = 0, !.last_reset = today]
    ELSE g

check_daily_trade_limit(g) == ~(g.daily_trades >= CH_max_trades_per_day)

check_daily_loss_limit(g) == ~(g.daily_loss >= CH_max_daily_loss)

check_position_limit(g) == ~(g.open_positions >= CH_max_open_positions)

check_position_size(signal) ==
    ~(Get(signal.position_size, 0) > CH_max_position_size)

\* variant: the floor itself is refused
check_signal_quality_above(signal) ==
    ~(Get(signal.confidence, 0) <= MIN_CONFIDENCE)

check_signal_quality(signal) ==
    ~(Get(signal.confidence, 0) < MIN_CONFIDENCE)

\* variant: confidence is a bonus on top of the base size
calculate_position_size_bonus(signal) ==
    LET base_size == Get(signal.position_size, CH_max_position_size)
        confidence == Get(signal.confidence, 50)
        adjusted_size == base_size * (100 + confidence)
    IN  IF adjusted_size <= CH_max_position_size * 100 THEN adjusted_size
        ELSE CH_max_position_size * 100

\* Governor._calculate_position_size, in 1/100000
calculate_position_size(signal) ==
    LET base_size == Get(signal.position_size, CH_max_position_size)
        confidence == Get(signal.confidence, 50)
        adjusted_size == base_size * confidence
    IN  IF adjusted_size <= CH_max_position_size * 100 THEN adjusted_size
        ELSE CH_max_position_size * 100

\* Governor._calculate_stop_loss and _calculate_take_profit, in 1/100
calculate_stop_loss(signal) ==
    Get(signal.price, 0) * (100 - CH_stop_loss_percent)

calculate_take_profit(signal) ==
    Get(signal.price, 0) * (100 + CH_take_profit_percent)

Rejected(check) ==
    [approved |-> FALSE, reason |-> check, position_size |-> None,
     stop_loss |-> None, take_profit |-> None]

\* variant: the checks on the signal come before the checks on the counters
evaluate_decision_signal_first(g, signal) ==
    IF ~check_position_size(signal) THEN Rejected("position_size")
    ELSE IF ~check_signal_quality(signal) THEN Rejected("signal_quality")
    ELSE IF ~check_daily_trade_limit(g) THEN Rejected("daily_trade_limit")
    ELSE IF ~check_daily_loss_limit(g) THEN Rejected("daily_loss_limit")
    ELSE IF ~check_position_limit(g) THEN Rejected("position_limit")
    ELSE [approved |-> TRUE, reason |-> "all_risk_checks_passed",
          position_size |-> calculate_position_size(signal),
          stop_loss |-> calculate_stop_loss(signal),
          take_profit |-> calculate_take_profit(signal)]

\* the decision Governor.evaluate returns once the daily reset is done: the
\* first failing check, in the order of the list, decides
evaluate_decision(g, signal) ==
    IF ~check_daily_trade_limit(g) THEN Rejected("daily_trade_limit")
    ELSE IF ~check_daily_loss_limit(g) THEN Rejected("daily_loss_limit")
    ELSE IF ~check_position_limit(g) THEN Rejected("position_limit")
    ELSE IF ~check_position_size(signal) THEN Rejected("position_size")
    ELSE IF ~check_signal_quality(signal) THEN Rejected("signal_quality")
    ELSE [approved |-> TRUE, reason |-> "all_risk_checks_passed",
          position_size |-> calculate_position_size(signal),
          stop_loss |-> calculate_stop_loss(signal),
          take_profit |-> calculate_take_profit(signal)]

\* Governor.evaluate: the governor it leaves and the decision
evaluate(g, signal, today) ==
    LET g1 == check_daily_reset(g, today)
    IN  [gov |-> g1, decision |-> evaluate_decision(g1, signal)]

\* Governor.record_trade
gov_record_trade(g, trade) ==
    LET g1 == [g EXCEPT !.daily_trades = @ + 1]
    IN  IF trade.action = "buy" THEN [g1 EXCEPT !.open_positions = @ + 1]
        ELSE IF trade.action = "sell"
        THEN LET g2 == [g1 EXCEPT !.open_positions =
                                     IF @ - 1 > 0 THEN @ - 1 ELSE 0]
             IN  IF trade.pnl < 0
                 THEN [g2 EXCEPT !.daily_loss = @ + (0 - trade.pnl)]
                 ELSE g2
        ELSE g1

\* ------------------------------------- chimera-bot/execution/executor.py
\* Executor._prepare_order
prepare_order(signal, risk) ==
    [symbol |-> signal.symbol, action |-> signal.action,
     price |-> signal.price, quantity |-> risk.position_size]

\* NDAXTest._update_paper_balance: the ledger it leaves and whether it raised
\* (unpacking a symbol without exactly one '/', or a missing ledger key)
update_paper_balance(bal, order) ==
    IF Len(order.symbol) # 2 THEN [balance |-> bal, raised |-> TRUE]
    ELSE
    LET base == order.symbol[1]
        quote == order.symbol[2]
        amount == order.price * order.quantity
        Put(b, k, v) == [a \in DOMAIN b \cup {k} |-> IF a = k THEN v ELSE b[a]]
    IN  IF order.action = "buy"
        THEN IF quote \notin DOMAIN bal
             THEN [balance |-> bal, raised |-> TRUE]
             ELSE LET b1 == Put(bal, quote, bal[quote] - amount)
                  IN  [balance |->
                         Put(b1, base, (IF base \in DOMAIN b1 THEN b1[base]
                                        ELSE 0) + order.quantity),
                       raised |-> FALSE]
        ELSE IF order.action = "sell"
        THEN IF quote \notin DOMAIN bal
             THEN [balance |-> bal, raised |-> TRUE]
             ELSE LET b1 == Put(bal, quote, bal[quote] + amount)
                  IN  IF base \notin DOMAIN b1
                      THEN [balance |-> b1, raised |-> TRUE]
                      ELSE [balance |-> Put(b1, base, b1[base] - order.quantity),
                            raised |-> FALSE]
        ELSE [balance |-> bal, raised |-> FALSE]

\* variant: the call takes its slot before the limit is looked at
check_rate_limit_slot_first(window, t) ==
    LET kept == SelectSeq(window, LAMBDA x : t - x < RATE_LIMIT_SECONDS)
    IN  IF Len(kept) >= RATE_LIMIT_ORDERS
        THEN [window |-> Append(kept, t), raised |-> TRUE]
        ELSE [window |-> Append(kept, t), raised |-> FALSE]

\* NDAXLive._check_rate_limit: the window it leaves and whether it raised
check_rate_limit(window, t) ==
    LET kept == SelectSeq(window, LAMBDA x : t - x < RATE_LIMIT_SECONDS)
    IN  IF Len(kept) >= RATE_LIMIT_ORDERS
        THEN [window |-> kept, raised |-> TRUE]
        ELSE [window |-> Append(kept, t), raised |-> FALSE]

\* Executor._execute_live's own guard: config.api_key and config.api_secret
has_credentials(c) == c.api_key /\ c.api_secret

\* NDAXLive.place_order's first guard
safety_locked(c) == c.SAFETY_LOCK

Failure(c, err) ==
    [c EXCEPT !.result = [success |-> FALSE, error |-> err, venue |-> "none"]]

Success(c, order, venue) ==
    [c EXCEPT !.executions = Append(@, [mode |-> c.mode, order |-> order]),
              !.result = [success |-> TRUE, error |-> "none",
                          venue |-> venue]]

\* Executor.execute with _execute_paper / NDAXTest.place_order
execute_paper(c, order) ==
    LET up == update_paper_balance(c.paper_balance, order)
    IN  IF up.raised
        THEN Failure([c EXCEPT !.paper_balance = up.balance], "ledger")
        ELSE Success([c EXCEPT !.paper_balance = up.balance,
                               !.paper_orders = Append(@, order)],
                     order, "paper")

\* NDAXLive.place_order as Executor.execute sees it
live_place_order(c, order) ==
    IF safety_locked(c) THEN Failure(c, "permission")
    ELSE LET rl == check_rate_limit(c.rate_limit_window, c.clock)
             c1 == [c EXCEPT !.rate_limit_window = rl.window]
         IN  IF rl.raised THEN Failure(c1, "rate_limit")
             ELSE IF ~c.account_id THEN Failure(c1, "account_id")
             ELSE Success([c1 EXCEPT !.live_orders = Append(@, order),
                                     !.live_times = Append(@, c.clock)],
                          order, "live")

\* variant: a locked or uncredentialed live call is simulated instead
execute_live_fallback(c, order) ==
    IF ~has_credentials(c) \/ safety_locked(c) THEN execute_paper(c, order)
    ELSE live_place_order(c, order)

\* Executor.execute with _execute_live
execute_live(c, order) ==
    IF ~has_credentials(c) THEN Failure(c, "credentials")
    ELSE live_place_order(c, order)

\* Executor.execute: routing on self.mode.value
ch_execute(c, order) ==
    IF c.mode = "live" THEN execute_live(c, order)
    ELSE execute_paper(c, order)

NoResult == [success |-> FALSE, error |-> "none", venue |-> "none"]

NoSignal == [symbol |-> <<>>, action |-> "none", price |-> None,
             confidence |-> None, position_size |-> None]

NoDecision == [approved |-> FALSE, reason |-> "none", position_size |-> None,
               stop_loss |-> None, take_profit |-> None]

\* what ChimeraBot.run returned: executed tells whether Executor.execute was
\* called, execution_success is the success field of what it returned
NoRun == [success |-> FALSE, reason |-> "none", executed |-> FALSE,
          execution_success |-> FALSE]

\* no NDAXLiveClient() call was made yet; its four fields are what os.getenv
\* gave the call: TRUE for a non-empty value
NoClient == [built |-> "none", api_key |-> FALSE, api_secret |-> FALSE,
             user_id |-> FALSE, account_id |-> FALSE]

\* variant: only the key is validated
NDAXLive_init_raises_key_only(c) == ~c.api_key

\* NDAXLive.__init__: the credential test that raises ValueError
NDAXLive_init_raises(c) == ~c.api_key \/ ~c.api_secret

\* Executor.__init__ for config.mode = m: built is "ok" when the constructor
\* returned and "ValueError" when the platform's constructor raised
Executor_init(c, m) ==
    IF m = "live" /\ NDAXLive_init_raises(c)
    THEN [c EXCEPT !.built = "ValueError"]
    ELSE [c EXCEPT !.mode = m, !.built = "ok"]

\* NDAXLiveClient.__init__ on the environment env
NDAXLiveClient_init(env) ==
    IF env.api_key /\ env.api_secret /\ env.user_id /\ env.account_id
    THEN [env EXCEPT !.built = "ok"]
    ELSE [env EXCEPT !.built = "ValueError"]

\* the Executor and the Governor before any construction (the controller's
\* runs leave them so); live_times: when each live order was accepted
ChIdle ==
    [mode |-> "none", SAFETY_LOCK |-> TRUE, api_key |-> FALSE,
     api_secret |-> FALSE, account_id |-> FALSE, clock |-> 0, calls |-> 0,
     executions |-> <<>>, paper_orders |-> <<>>, live_orders |-> <<>>,
     rate_limit_window |-> <<>>, paper_balance |-> InitPaperBalance,
     result |-> NoResult, live_times |-> <<>>, gov |-> InitGovernor(0),
     today |-> 0, signal |-> NoSignal, decision |-> NoDecision,
     run |-> NoRun, runs |-> 0, built |-> "none", client |-> NoClient]

\* Executor.__init__ succeeded: NDAXLive needs both credentials to be built
ChBuilt ==
    {c \in {[ChIdle EXCEPT !.mode = m, !.api_key = k, !.api_secret = sec,
                           !.account_id = a, !.built = "ok"] :
               m \in {"paper", "live"}, k \in BOOLEAN, sec \in BOOLEAN,
               a \in BOOLEAN} :
        c.mode = "live" => has_credentials(c)}

\* ------------------------------------------------------------ governor.py
\* variant: the drawdown must exceed the stop
risk_check_above_stop(state) ==
    IF state.drawdown > RISK_hard_stop_loss THEN FALSE
    ELSE IF state.daily_pnl <= 0 - RISK_max_daily_loss THEN FALSE
    ELSE IF state.trades_last_hour >= RISK_max_trades_per_hour THEN FALSE
    ELSE TRUE

risk_check(state) ==
    IF state.drawdown >= RISK_hard_stop_loss THEN FALSE
    ELSE IF state.daily_pnl <= 0 - RISK_max_daily_loss THEN FALSE
    ELSE IF state.trades_last_hour >= RISK_max_trades_per_hour THEN FALSE
    ELSE TRUE

\* variant: the whole balance counts as usable capital
allowed_size_uncapped(balance) == (balance * 100) * RISK_max_position

\* balance * capital_cap * max_position, in units of 1/10000
allowed_size(balance) == (balance * RISK_capital_cap) * RISK_max_position

\* ------------------------------------------------------------ inputs
Outcomes == {"win", "loss"}
Signals == {"BUY", "SELL", "HOLD"}
DrawdownValues == {0, RISK_hard_stop_loss, 35}
\* a healthy account and one account per limit of risk_check, at the limit
Healthy == [balance |-> 10000, drawdown |-> 0, daily_pnl |-> 0,
            trades_last_hour |-> 0]
Accounts ==
    {Healthy,
     [Healthy EXCEPT !.drawdown = RISK_hard_stop_loss],
     [Healthy EXCEPT !.daily_pnl = 0 - RISK_max_daily_loss],
     [Healthy EXCEPT !.trades_last_hour = RISK_max_trades_per_hour]}

\* op: the call; mode, cgr: config.MODE and consecutive_good_runs it found;
\* good: check_demotion counted a good run; branch, risk, size: what execute did
Call(op) == [op |-> op, mode |-> MODE,
             cgr |-> stats.consecutive_good_runs, good |-> FALSE,
             branch |-> "none", risk |-> "none", size |-> 0]

\* main() on entering its while loop: the cycle starts with decide(); state
\* is the healthy account and last_hour is the hour of the start; raised is
\* the exception being handled, "handled" at the head of the cycle after it;
\* executed counts the BUY and SELL signals execute has acted on since the
\* last hourly reset
MainStart == [pc |-> "decide", signal |-> "HOLD", state |-> Healthy,
              last_hour |-> 0, raised |-> "none", executed |-> 0]

\* ------------------------------------------------------------ Init
\* config.py reads BOT_MODE and ALLOW_LIVE from the environment once; the
\* executor binds its own name MODE to that first value.
Init ==
    /\ MODE \in Modes
    /\ executor_MODE = MODE
    /\ ALLOW_LIVE \in BOOLEAN
    /\ now = 0
    /\ START_TIME = 0
    /\ LIVE_START_TIME = None
    /\ RETRAINING_START_TIME = None
    /\ stats = InitStats
    /\ last_call = [op |-> "init", mode |-> MODE, cgr |-> 0, good |-> FALSE,
                    branch |-> "none", risk |-> "none", size |-> 0]
    /\ demoted_at = None
    /\ live_sessions = 0
    /\ live_since = IF MODE = "LIVE_LIMITED" THEN 0 ELSE None
    /\ session_mark = None
    /\ ch = ChIdle
    /\ loop = MainStart

\* ------------------------------------------------------------ actions
\* time.sleep: d minutes pass
sleep(d) ==
    /\ now' = now + d
    /\ last_call' = Call("tick")
    /\ UNCHANGED <<MODE, executor_MODE, ALLOW_LIVE, START_TIME, LIVE_START_TIME,
                   RETRAINING_START_TIME, stats, demoted_at,
                   live_sessions, session_mark, live_since, ch>>

\* time passes between two calls
Tick ==
    /\ now + TickMinutes <= MaxTime
    /\ sleep(TickMinutes)
    /\ UNCHANGED loop

\* a caller writes stats["drawdown"] (nothing in promotion.py computes it)
set_drawdown(d) ==
    /\ d # stats.drawdown
    /\ stats' = [stats EXCEPT !.drawdown = d]
    /\ last_call' = Call("set_drawdown")
    /\ UNCHANGED <<MODE, executor_MODE, ALLOW_LIVE, now, START_TIME,
                   LIVE_START_TIME, RETRAINING_START_TIME,
                   demoted_at, live_sessions, session_mark, live_since, ch>>

SetDrawdown ==
    /\ \E d \in DrawdownValues : set_drawdown(d)
    /\ UNCHANGED loop

\* variant: the live counters are kept in every mode
record_trade_stats_always_live(s, mode, outcome, pnl) ==
    LET s1 == [s EXCEPT !.paper_trades = @ + 1, !.live_trades = @ + 1]
        s2 == IF outcome = "win"
              THEN [s1 EXCEPT !.wins = @ + 1, !.live_wins = @ + 1]
              ELSE IF outcome = "loss"
                   THEN [s1 EXCEPT !.losses = @ + 1, !.live_losses = @ + 1]
                   ELSE s1
    IN  IF pnl # 0 THEN [s2 EXCEPT !.daily_pnl = @ + pnl] ELSE s2

record_trade_stats(s, mode, outcome, pnl) ==
    LET s1 == [s EXCEPT !.paper_trades = @ + 1]
        s2 == IF outcome = "win" THEN [s1 EXCEPT !.wins = @ + 1]
              ELSE IF outcome = "loss" THEN [s1 EXCEPT !.losses = @ + 1]
              ELSE s1
        s3 == IF mode = "LIVE_LIMITED"
              THEN LET l1 == [s2 EXCEPT !.live_trades = @ + 1]
                   IN  IF outcome = "win" THEN [l1 EXCEPT !.live_wins = @ + 1]
                       ELSE IF outcome = "loss"
                            THEN [l1 EXCEPT !.live_losses = @ + 1]
                            ELSE l1
              ELSE s2
    IN  IF pnl # 0 THEN [s3 EXCEPT !.daily_pnl = @ + pnl] ELSE s3

record_trade(outcome) ==
    /\ stats' = record_trade_stats(stats, MODE, outcome, 0)
    /\ last_call' = Call("record_trade")
    /\ UNCHANGED <<MODE, executor_MODE, ALLOW_LIVE, now, START_TIME,
                   LIVE_START_TIME, RETRAINING_START_TIME,
                   demoted_at, live_sessions, session_mark, live_since, ch>>

RecordTrade ==
    /\ stats.paper_trades < MaxTrades
    /\ \E outcome \in Outcomes : record_trade(outcome)
    /\ UNCHANGED loop

\* variant: promotion from any mode that is not live yet
promotion_mode_not_live(mode) == mode # "LIVE_LIMITED"

\* first operand of check_promotion's condition: can_promote() is called,
\* and has its side effects, only when it holds
promotion_mode(mode) == mode = "PAPER"

\* variant: the allow-live flag is not consulted
promotes_ignoring_allow(mode, s, rst, st, t, allow) ==
    promotion_mode(mode) /\ can_promote(s, rst, st, t)

\* the condition of check_promotion's if
promotes(mode, s, rst, st, t, allow) ==
    promotion_mode(mode) /\ can_promote(s, rst, st, t) /\ allow

\* variant: the switch to live is not counted
promotion_stats_uncounted(s, t) ==
    [s EXCEPT !.current_session_start = t, !.can_skip_paper = FALSE]

\* what a promotion writes to stats
promotion_stats(s, t) ==
    [s EXCEPT !.mode_switches = @ + 1,
              !.current_session_start = t,
              !.can_skip_paper = FALSE]

check_promotion ==
    /\ last_call' = Call("check_promotion")
    /\ LET called == promotion_mode(MODE)
           s1 == IF called THEN can_promote_stats(stats) ELSE stats
           r1 == IF called
                 THEN can_promote_rst(stats, RETRAINING_START_TIME, now)
                 ELSE RETRAINING_START_TIME
       IN  IF promotes(MODE, stats, RETRAINING_START_TIME, START_TIME, now,
                       ALLOW_LIVE)
           THEN /\ MODE' = "LIVE_LIMITED"
                /\ LIVE_START_TIME' = now
                /\ stats' = promotion_stats(s1, now)
                /\ RETRAINING_START_TIME' = r1
                /\ session_mark' = now
                /\ live_since' = now
                /\ live_sessions' = 0
           ELSE /\ stats' = s1
                /\ RETRAINING_START_TIME' = r1
                /\ UNCHANGED <<MODE, LIVE_START_TIME, session_mark,
                               live_since, live_sessions>>
    /\ UNCHANGED <<executor_MODE, ALLOW_LIVE, now, START_TIME, demoted_at, ch>>

CheckPromotion ==
    /\ check_promotion
    /\ UNCHANGED loop

\* the good-run accounting at the head of check_demotion
is_good_run(s, lst, t) ==
    /\ lst # None
    /\ s.current_session_start # None
    /\ Minutes(t, s.current_session_start) >= DEMOTION_min_live_minutes
    /\ RateGE(live_win_rate(s), DEMOTION_good_run_threshold)

\* variant: the session timer restarts at a good run
good_run_stats_restart(s, lst, t) ==
    IF is_good_run(s, lst, t)
    THEN [s EXCEPT !.consecutive_good_runs = @ + 1,
                   !.current_session_start = t]
    ELSE s

good_run_stats(s, lst, t) ==
    IF is_good_run(s, lst, t)
    THEN [s EXCEPT !.consecutive_good_runs = @ + 1,
                   !.current_session_start = None]
    ELSE s

\* variant: the assignment stays local, the module's timer keeps its value
demotion_clock_local(t, old) == old

\* RETRAINING_START_TIME and START_TIME after a demotion (both are declared
\* global and assigned datetime.now())
demotion_clock(t, old) == t

\* variant: the good-run counter survives the demotion
demotion_stats_keep_runs(s) ==
    [s EXCEPT !.mode_switches = @ + 1,
              !.current_session_start = None]

\* stats after a demotion
demotion_stats(s) ==
    [s EXCEPT !.mode_switches = @ + 1,
              !.consecutive_good_runs = 0,
              !.current_session_start = None]

check_demotion ==
    IF MODE = "LIVE_LIMITED"
    THEN LET good == is_good_run(stats, LIVE_START_TIME, now)
             s1 == good_run_stats(stats, LIVE_START_TIME, now)
             fullSession ==
                 /\ session_mark # None
                 /\ Minutes(now, session_mark) >= DEMOTION_min_live_minutes
                 /\ RateGE(live_win_rate(stats), DEMOTION_good_run_threshold)
         IN  /\ last_call' = [Call("check_demotion") EXCEPT !.good = good]
             /\ IF should_demote(s1, LIVE_START_TIME, now)
                THEN /\ MODE' = "PAPER"
                     /\ RETRAINING_START_TIME' =
                            demotion_clock(now, RETRAINING_START_TIME)
                     /\ START_TIME' = demotion_clock(now, START_TIME)
                     /\ stats' = demotion_stats(s1)
                     /\ LIVE_START_TIME' = None
                     /\ demoted_at' = now
                     /\ live_sessions' = 0
                     /\ session_mark' = None
                     /\ live_since' = None
                ELSE /\ stats' = s1
                     /\ live_sessions' =
                            IF fullSession THEN live_sessions + 1
                            ELSE live_sessions
                     /\ session_mark' =
                            IF fullSession THEN now ELSE session_mark
                     /\ UNCHANGED <<MODE, RETRAINING_START_TIME, START_TIME,
                                    LIVE_START_TIME, demoted_at, live_since>>
             /\ UNCHANGED <<executor_MODE, ALLOW_LIVE, now, ch>>
    ELSE /\ last_call' = Call("check_demotion")
         /\ UNCHANGED <<MODE, executor_MODE, ALLOW_LIVE, now, START_TIME,
                        LIVE_START_TIME, RETRAINING_START_TIME, stats,
                        demoted_at, live_sessions, session_mark, live_since, ch>>

CheckDemotion ==
    /\ check_demotion
    /\ UNCHANGED loop

\* ------------------------------------------------------------ executor.py
\* variant: LIVE_LIMITED alone opens the live branch
execute_branch_unlocked(m, allow, account) ==
    IF m = "HALTED" THEN "halted"
    ELSE IF ~risk_check(account) THEN "rejected"
    ELSE IF m = "PAPER" THEN "paper"
    ELSE IF m = "LIVE_LIMITED" THEN "live"
    ELSE "nothing"

\* variant: no early return for HALTED
execute_branch_no_halt(m, allow, account) ==
    IF ~risk_check(account) THEN "rejected"
    ELSE IF m = "PAPER" THEN "paper"
    ELSE IF m = "LIVE_LIMITED" /\ allow THEN "live"
    ELSE "nothing"

\* which branch execute() takes, by the module's own names MODE, ALLOW_LIVE
execute_branch(m, allow, account) ==
    IF m = "HALTED" THEN "halted"
    ELSE IF ~risk_check(account) THEN "rejected"
    ELSE IF m = "PAPER" THEN "paper"
    ELSE IF m = "LIVE_LIMITED" /\ allow THEN "live"
    ELSE "nothing"

execute(signal, account) ==
    /\ LET b == execute_branch(executor_MODE, ALLOW_LIVE, account)
       IN  last_call' =
             [Call("execute") EXCEPT
                !.branch = b,
                !.size = IF b \in {"paper", "live"}
                         THEN allowed_size(account.balance) ELSE 0,
                !.risk = IF b = "halted" THEN "none"
                         ELSE IF risk_check(account) THEN "passed"
                         ELSE "failed"]
    /\ UNCHANGED <<MODE, executor_MODE, ALLOW_LIVE, now, START_TIME,
                   LIVE_START_TIME, RETRAINING_START_TIME, stats, demoted_at,
                   live_sessions, session_mark, live_since, ch>>

Execute ==
    /\ \E signal \in Signals, account \in Accounts : execute(signal, account)
    /\ UNCHANGED loop

Next ==
    \/ Tick
    \/ SetDrawdown
    \/ RecordTrade
    \/ CheckPromotion
    \/ CheckDemotion
    \/ Execute

Spec == Init /\ [][Next]_vars

\* a process started with BOT_MODE=PAPER (the default of config.py)
PaperInit ==
    /\ Init
    /\ MODE = "PAPER"

PaperSpec == PaperInit /\ [][Next]_vars

\* ------------------------------------------------------------ main.py
\* datetime.now().hour, counted from the hour of the start
Hour(t) == t \div 60

Goto(pc) == [loop EXCEPT !.pc = pc]

\* signal = decide({"price": price}); the signal is kept until the last
\* statement that reads it
MainDecide ==
    /\ loop.pc = "decide"
    /\ \E signal \in Signals :
          /\ signal \in {"BUY", "SELL"} => stats.paper_trades < MaxTrades
          /\ loop' = [loop EXCEPT !.pc = "execute", !.signal = signal,
                                  !.raised = "none"]
    /\ UNCHANGED modVars

\* execute(signal, state, price)
MainExecute ==
    /\ loop.pc = "execute"
    /\ execute(loop.signal, loop.state)
    /\ loop' = IF loop.signal \in {"BUY", "SELL"}
               THEN [loop EXCEPT
                       !.pc = "record",
                       !.executed =
                          IF execute_branch(executor_MODE, ALLOW_LIVE,
                                            loop.state) \in {"paper", "live"}
                          THEN @ + 1 ELSE @]
               ELSE Goto("promotion")

\* variant: the trade is not counted
count_trade_skipped(state) == state

\* state["trades_last_hour"] += 1
count_trade(state) == [state EXCEPT !.trades_last_hour = @ + 1]

\* state["trades_last_hour"] += 1 and record_trade(outcome)
MainRecordTrade ==
    /\ loop.pc = "record"
    /\ \E outcome \in Outcomes : record_trade(outcome)
    /\ loop' = [loop EXCEPT !.pc = "promotion",
                            !.state = count_trade(@)]

MainCheckPromotion ==
    /\ loop.pc = "promotion"
    /\ check_promotion
    /\ loop' = [loop EXCEPT !.pc = "demotion", !.signal = "HOLD"]

MainCheckDemotion ==
    /\ loop.pc = "demotion"
    /\ check_demotion
    /\ loop' = Goto("sleep")

\* the hourly reset, then time.sleep(60)
MainSleep ==
    /\ loop.pc = "sleep"
    /\ now + SleepMinutes <= MaxLoopTime
    /\ sleep(SleepMinutes)
    /\ loop' = IF Hour(now) # loop.last_hour
               THEN [loop EXCEPT !.pc = "decide",
                                 !.state.trades_last_hour = 0,
                                 !.last_hour = Hour(now),
                                 !.executed = 0]
               ELSE Goto("decide")

\* stats["drawdown"] is written from outside while the loop sleeps
MainSetDrawdown ==
    /\ loop.pc = "sleep"
    /\ \E d \in {0, RISK_hard_stop_loss} : set_drawdown(d)
    /\ UNCHANGED loop

MainNext ==
    \/ MainDecide
    \/ MainExecute
    \/ MainRecordTrade
    \/ MainCheckPromotion
    \/ MainCheckDemotion
    \/ MainSleep
    \/ MainSetDrawdown

MainSpec == Init /\ [][MainNext]_vars

\* ------------------------------------------------ main.py, exceptions
\* what a statement of the try block may raise
Exceptions == {"Exception", "KeyboardInterrupt"}

\* the statements of the try block
TryBlock == {"decide", "execute", "record", "promotion", "demotion", "sleep"}

\* variant: the handler of Exception leaves the loop as well
except_clause_break(exc) == "ended"

\* where main() goes on after exc: the KeyboardInterrupt clause reports and
\* breaks, the Exception clause prints and sleeps
except_clause(exc) ==
    IF exc = "KeyboardInterrupt" THEN "ended" ELSE "except"

\* record_trade may raise for the first MaxUnrecorded trades of an hour
MaxUnrecorded == 1

\* the statement at loop.pc raises instead of completing; at "record" the
\* counter's increment, which cannot raise, is done before record_trade
\* does. Ctrl-C during the handler's time.sleep(5) leaves main() as well
MainRaise ==
    /\ loop.pc \in TryBlock \cup {"except"}
    /\ loop.pc = "record" => loop.state.trades_last_hour < MaxUnrecorded
    /\ \E exc \in Exceptions :
          /\ loop.pc = "except" => exc = "KeyboardInterrupt"
          /\ loop' = [loop EXCEPT !.pc = IF loop.pc = "except" THEN "ended"
                                        ELSE except_clause(exc),
                                  !.raised = exc, !.signal = "HOLD",
                                  !.state = IF loop.pc = "record"
                                            THEN count_trade(@) ELSE @]
    /\ UNCHANGED modVars

\* print and time.sleep(5); the while loop goes round. Five seconds may or
\* may not carry datetime.now() into the next minute
MainRecover ==
    /\ loop.pc = "except"
    /\ \E d \in {0, SleepMinutes} :
          /\ now + d <= MaxLoopTime
          /\ sleep(d)
    /\ loop' = [loop EXCEPT !.pc = "decide", !.raised = "handled"]

LoopNext ==
    \/ MainDecide
    \/ MainExecute
    \/ MainRecordTrade
    \/ MainCheckPromotion
    \/ MainCheckDemotion
    \/ MainSleep
    \/ MainRaise
    \/ MainRecover

LoopSpec == Init /\ [][LoopNext]_vars

\* ------------------------------------------------ main.py, the hourly cap
\* the loop with enough BUY and SELL signals to fill an hour: a cycle cut
\* short by an exception is retried after five seconds, so more than sixty
\* cycles fit between two hourly resets. The exceptions come after the
\* trade is recorded and the assumed outcomes are all losses, which keeps
\* the trade statistics on one line
MaxHourTrades == 102
MaxHourTime == 61

HourDecide ==
    /\ loop.pc = "decide"
    /\ \E signal \in Signals :
          /\ signal \in {"BUY", "SELL"} =>
                /\ loop.state.trades_last_hour < MaxHourTrades
                /\ stats.paper_trades + stats.live_trades < MaxHourTrades
          /\ loop' = [loop EXCEPT !.pc = "execute", !.signal = signal,
                                  !.raised = "none"]
    /\ UNCHANGED modVars

HourRecordTrade ==
    /\ loop.pc = "record"
    /\ record_trade("loss")
    /\ loop' = [loop EXCEPT !.pc = "promotion",
                            !.state = count_trade(@)]

HourSleep ==
    /\ now + SleepMinutes <= MaxHourTime
    /\ MainSleep

HourRaise ==
    /\ loop.pc \in {"promotion", "demotion", "sleep", "except"}
    /\ MainRaise

HourRecover ==
    /\ MainRecover
    /\ now' <= MaxHourTime

HourNext ==
    \/ HourDecide
    \/ MainExecute
    \/ HourRecordTrade
    \/ MainCheckPromotion
    \/ MainCheckDemotion
    \/ HourSleep
    \/ HourRaise
    \/ HourRecover

HourSpec == Init /\ [][HourNext]_vars

\* ------------------------------------------------------------ chimera-bot
ChControllerIdle ==
    /\ MODE = "PAPER"
    /\ executor_MODE = "PAPER"
    /\ ALLOW_LIVE = FALSE
    /\ now = 0
    /\ START_TIME = 0
    /\ LIVE_START_TIME = None
    /\ RETRAINING_START_TIME = None
    /\ stats = InitStats
    /\ last_call = [op |-> "init", mode |-> "PAPER", cgr |-> 0, good |-> FALSE,
                    branch |-> "none", risk |-> "none", size |-> 0]
    /\ demoted_at = None
    /\ live_sessions = 0
    /\ session_mark = None
    /\ live_since = None
    /\ loop = MainStart

ChInit ==
    /\ ChControllerIdle
    /\ ch \in ChBuilt

ChExecute ==
    /\ ch.built = "ok"
    /\ ch.calls < MaxExecutions
    /\ \E sym \in ChSymbols, act \in ChActions, p \in ChPrices,
          q \in ChQuantities :
          LET signal == [symbol |-> sym, action |-> act, price |-> p]
              risk == [approved |-> TRUE, position_size |-> q]
          IN  ch' = [ch_execute(ch, prepare_order(signal, risk))
                       EXCEPT !.calls = @ + 1]
    /\ UNCHANGED ctlVars

\* NDAXLive.SAFETY_LOCK is a class attribute the operator assigns
ChSetSafetyLock ==
    /\ ch' = [ch EXCEPT !.SAFETY_LOCK = ~@]
    /\ UNCHANGED ctlVars

\* the Config object is shared and mutable: a credential is set or cleared
ChSetCredentials ==
    /\ \E k \in BOOLEAN, sec \in BOOLEAN :
          /\ <<k, sec>> # <<ch.api_key, ch.api_secret>>
          /\ ch' = [ch EXCEPT !.api_key = k, !.api_secret = sec]
    /\ UNCHANGED ctlVars

ChTick ==
    /\ ch.clock + ChTickSeconds <= MaxChTime
    /\ ch' = [ch EXCEPT !.clock = @ + ChTickSeconds]
    /\ UNCHANGED ctlVars

ChNext ==
    \/ ChExecute
    \/ ChSetSafetyLock
    \/ ChSetCredentials
    \/ ChTick

ChimeraSpec == ChInit /\ [][ChNext]_vars

\* ------------------------------------------------ construction
\* Config.from_env has read the environment; nothing is constructed yet
BuildInit ==
    /\ ChControllerIdle
    /\ \E k \in BOOLEAN, sec \in BOOLEAN, a \in BOOLEAN :
          ch = [ChIdle EXCEPT !.api_key = k, !.api_secret = sec,
                              !.account_id = a]

\* ChimeraBot.__init__ constructs the one Executor of the process
BuildExecutor ==
    /\ ch.built = "none"
    /\ \E m \in {"paper", "live"} : ch' = Executor_init(ch, m)
    /\ UNCHANGED ctlVars

\* NDAXLiveClient() on the NDAX_* variables of the environment
BuildClient ==
    /\ ch.client.built = "none"
    /\ \E k \in BOOLEAN, sec \in BOOLEAN, u \in BOOLEAN, a \in BOOLEAN :
          ch' = [ch EXCEPT !.client =
                    NDAXLiveClient_init([NoClient EXCEPT
                        !.api_key = k, !.api_secret = sec,
                        !.user_id = u, !.account_id = a])]
    /\ UNCHANGED ctlVars

BuildNext ==
    \/ BuildExecutor
    \/ BuildClient
    \/ ChExecute
    \/ ChSetSafetyLock
    \/ ChSetCredentials

BuildSpec == BuildInit /\ [][BuildNext]_vars

\* ------------------------------------------------ chimera-bot Governor
\* signals a caller may hand to Governor.evaluate: confidence and
\* position_size absent, below, at and above their thresholds; evaluate
\* reads neither the action nor the symbol
EvalConfidences == {None, MIN_CONFIDENCE - 1, MIN_CONFIDENCE, 80, 100}
EvalPositionSizes == {None, 50, CH_max_position_size, CH_max_position_size + 1}
EvalSignals ==
    [symbol : {BTC_USD}, action : {"buy"}, price : ChPrices,
     confidence : EvalConfidences, position_size : EvalPositionSizes]

\* trades a caller may hand to Governor.record_trade; pnl in 1/100
RecordedTrades == [action : ChActions, pnl : {0, 0 - CH_max_daily_loss}]

ChGovInit ==
    /\ ChControllerIdle
    /\ ch = ChIdle

ChGovEvaluate ==
    /\ \E signal \in EvalSignals :
          LET ev == evaluate(ch.gov, signal, ch.today)
          IN  ch' = [ch EXCEPT !.gov = ev.gov, !.signal = signal,
                               !.decision = ev.decision]
    /\ UNCHANGED ctlVars

ChGovRecordTrade ==
    /\ ch.gov.daily_trades < MaxDailyTrades
    /\ \E trade \in RecordedTrades :
          /\ trade.action = "buy" => ch.gov.open_positions < MaxOpenPositions
          /\ trade.pnl < 0 => ch.gov.daily_loss < MaxDailyLoss
          /\ ch' = [ch EXCEPT !.gov = gov_record_trade(@, trade)]
    /\ UNCHANGED ctlVars

\* datetime.now().date() moves on
ChNewDay ==
    /\ ch.today < MaxDays
    /\ ch' = [ch EXCEPT !.today = @ + 1]
    /\ UNCHANGED ctlVars

ChGovNext ==
    \/ ChGovEvaluate
    \/ ChGovRecordTrade
    \/ ChNewDay

ChGovSpec == ChGovInit /\ [][ChGovNext]_vars

\* ------------------------------------------------ chimera-bot/main.py
\* ChimeraCore.generate_signal: BTC/USD, a confidence between 0.5 and 0.95
\* and the position size max_position_size * confidence
StrategyConfidences == {MIN_CONFIDENCE - 1, MIN_CONFIDENCE, 95}
StrategySignals ==
    {[symbol |-> BTC_USD, action |-> a, price |-> p, confidence |-> c,
      position_size |-> (CH_max_position_size * c) \div 100] :
        a \in ChActions, p \in ChPrices, c \in StrategyConfidences}

\* a Governor that has recorded trades before the cycle
UsedGovernors ==
    {InitGovernor(0),
     [InitGovernor(0) EXCEPT !.daily_trades = CH_max_trades_per_day],
     [InitGovernor(0) EXCEPT !.open_positions = CH_max_open_positions]}

\* variant: the decision is logged, the order is executed whatever it says
run_unchecked(c, signal) ==
    LET ev == evaluate(c.gov, signal, c.today)
        c0 == [c EXCEPT !.gov = ev.gov, !.signal = signal,
                        !.decision = ev.decision, !.runs = @ + 1]
        c1 == ch_execute(c0, prepare_order(signal, ev.decision))
    IN  [c1 EXCEPT !.calls = @ + 1,
                   !.run = [success |-> TRUE, reason |-> "none",
                            executed |-> TRUE,
                            execution_success |-> c1.result.success]]

\* ChimeraBot.run
run(c, signal) ==
    LET ev == evaluate(c.gov, signal, c.today)
        c0 == [c EXCEPT !.gov = ev.gov, !.signal = signal,
                        !.decision = ev.decision, !.runs = @ + 1]
    IN  IF ~ev.decision.approved
        THEN [c0 EXCEPT !.run = [success |-> FALSE,
                                 reason |-> "rejected_by_risk_governor",
                                 executed |-> FALSE,
                                 execution_success |-> FALSE]]
        ELSE LET c1 == ch_execute(c0, prepare_order(signal, ev.decision))
             IN  [c1 EXCEPT !.calls = @ + 1,
                            !.run = [success |-> TRUE, reason |-> "none",
                                     executed |-> TRUE,
                                     execution_success |-> c1.result.success]]

BotInit ==
    /\ ChControllerIdle
    /\ \E c \in ChBuilt, g \in UsedGovernors : ch = [c EXCEPT !.gov = g]

BotRun ==
    /\ ch.runs < MaxRuns
    /\ ch.calls < MaxExecutions
    /\ \E signal \in StrategySignals : ch' = run(ch, signal)
    /\ UNCHANGED ctlVars

BotNext ==
    \/ BotRun
    \/ ChSetSafetyLock
    \/ ChNewDay

BotSpec == BotInit /\ [][BotNext]_vars

\* ------------------------------------------------ NDAXLive under load
\* a live Executor whose operator has set NDAXLive.SAFETY_LOCK = False
RateInit ==
    /\ ChControllerIdle
    /\ \E c \in ChBuilt :
          /\ c.mode = "live"
          /\ ch = [c EXCEPT !.SAFETY_LOCK = FALSE]

\* the same order again and again
RateExecute ==
    /\ ch.calls < MaxOrders
    /\ \E p \in ChPrices, q \in ChQuantities :
          LET signal == [symbol |-> BTC_USD, action |-> "buy", price |-> p]
              risk == [approved |-> TRUE, position_size |-> q]
          IN  ch' = [ch_execute(ch, prepare_order(signal, risk))
                       EXCEPT !.calls = @ + 1]
    /\ UNCHANGED ctlVars

RateTick ==
    /\ ch.clock + ChTickSeconds <= MaxRateTime
    /\ ch' = [ch EXCEPT !.clock = @ + ChTickSeconds]
    /\ UNCHANGED ctlVars

RateNext ==
    \/ RateExecute
    \/ RateTick

RateSpec == RateInit /\ [][RateNext]_vars

\* ------------------------------------------------ the two executors
\* ChimeraBot.run, Executor.execute called on its own, and execute() of
\* src/execution/executor.py, side by side
GateNext ==
    \/ BotRun
    \/ ChExecute
    \/ Execute

GateSpec == BotInit /\ [][GateNext]_vars

\* ------------------------------------------------ governor.py on inputs
\* account states below, at and above each limit of risk_check
AccountDrawdowns == {0, RISK_hard_stop_loss - 1, RISK_hard_stop_loss, 35}
AccountDailyPnl == {5, 1 - RISK_max_daily_loss, 0 - RISK_max_daily_loss, 0 - 60}
AccountTrades == {0, RISK_max_trades_per_hour - 1, RISK_max_trades_per_hour, 150}
AccountBalances == {0, 3, 10000}

GovInit ==
    /\ MODE \in Modes
    /\ executor_MODE = MODE
    /\ ALLOW_LIVE \in BOOLEAN
    /\ now = 0
    /\ START_TIME = 0
    /\ LIVE_START_TIME = None
    /\ RETRAINING_START_TIME = None
    /\ stats = InitStats
    /\ last_call = [op |-> "init", mode |-> MODE, cgr |-> 0, good |-> FALSE,
                    branch |-> "none", risk |-> "none", size |-> 0]
    /\ demoted_at = None
    /\ live_sessions = 0
    /\ live_since = IF MODE = "LIVE_LIMITED" THEN 0 ELSE None
    /\ session_mark = None
    /\ ch = ChIdle
    /\ \E b \in AccountBalances, d \in AccountDrawdowns,
          p \in AccountDailyPnl, n \in AccountTrades :
          loop = [MainStart EXCEPT
                    !.state = [balance |-> b, drawdown |-> d, daily_pnl |-> p,
                               trades_last_hour |-> n]]

\* risk_check(state) called on its own
GovRiskCheck ==
    /\ last_call' = [Call("risk_check") EXCEPT
                       !.risk = IF risk_check(loop.state) THEN "passed"
                                ELSE "failed"]
    /\ UNCHANGED <<MODE, executor_MODE, ALLOW_LIVE, now, START_TIME,
                   LIVE_START_TIME, RETRAINING_START_TIME, stats, demoted_at,
                   live_sessions, session_mark, live_since, ch, loop>>

\* allowed_size(balance) called on its own
GovAllowedSize ==
    /\ last_call' = [Call("allowed_size") EXCEPT
                       !.size = allowed_size(loop.state.balance)]
    /\ UNCHANGED <<MODE, executor_MODE, ALLOW_LIVE, now, START_TIME,
                   LIVE_START_TIME, RETRAINING_START_TIME, stats, demoted_at,
                   live_sessions, session_mark, live_since, ch, loop>>

GovExecute ==
    /\ \E signal \in Signals : execute(signal, loop.state)
    /\ UNCHANGED loop

GovNext ==
    \/ GovRiskCheck
    \/ GovAllowedSize
    \/ GovExecute

GovSpec == GovInit /\ [][GovNext]_vars

\* ------------------------------------------------ check_promotion on inputs
\* stats is a module-level dict and the timers are module globals: the calls
\* below find them with any good-run count, trade record, drawdown and
\* retraining timer.
TradeRecords == {<<0, 0>>, <<PROMOTION_min_trades, 0>>, <<0, PROMOTION_min_trades>>}

PromoInit ==
    /\ MODE \in Modes
    /\ executor_MODE = MODE
    /\ ALLOW_LIVE \in BOOLEAN
    /\ now = 0
    /\ START_TIME = 0
    /\ LIVE_START_TIME = None
    /\ RETRAINING_START_TIME \in {None, 0}
    /\ \E g \in 0..MaxGoodRuns, r \in TradeRecords, d \in DrawdownValues :
          stats = [InitStats EXCEPT !.consecutive_good_runs = g,
                                    !.paper_trades = r[1] + r[2],
                                    !.wins = r[1], !.losses = r[2],
                                    !.drawdown = d]
    /\ last_call = [op |-> "init", mode |-> MODE, cgr |-> 0, good |-> FALSE,
                    branch |-> "none", risk |-> "none", size |-> 0]
    /\ demoted_at = None
    /\ live_sessions = 0
    /\ live_since = IF MODE = "LIVE_LIMITED" THEN 0 ELSE None
    /\ session_mark = None
    /\ ch = ChIdle
    /\ loop = MainStart

PromoNext ==
    \/ Tick
    \/ CheckPromotion

PromoSpec == PromoInit /\ [][PromoNext]_vars

\* ================================================================ claims

\* the standard promotion criteria as the documentation words them, on the
\* current state
StandardMet ==
    /\ now - START_TIME >= PROMOTION_min_minutes
    /\ stats.paper_trades >= PROMOTION_min_trades
    /\ stats.wins + stats.losses > 0
    /\ 100 * stats.wins >= PROMOTION_min_win_rate * (stats.wins + stats.losses)
    /\ stats.drawdown <= RISK_hard_stop_loss

CoolingDown ==
    /\ RETRAINING_START_TIME # None
    /\ now - RETRAINING_START_TIME < DEMOTION_retraining_minutes

LiveRateBelow(pct) ==
    \/ stats.live_wins + stats.live_losses = 0
    \/ 100 * stats.live_wins < pct * (stats.live_wins + stats.live_losses)

\* C1: while ALLOW_LIVE is false, a check_promotion call that finds PAPER
\* leaves PAPER, and the promotion condition is false for every value of
\* consecutive_good_runs, the fast-skip values included.
C1_NoPromotionWithoutAllowLive ==
    ~ALLOW_LIVE =>
        /\ (last_call.op = "check_promotion" /\ last_call.mode = "PAPER")
              => MODE = "PAPER"
        /\ MODE # "LIVE_LIMITED" \/ executor_MODE = "LIVE_LIMITED"
        /\ \A g \in 0..(PROMOTION_skip_after_good_runs + 1) :
              ~promotes("PAPER",
                        [stats EXCEPT !.consecutive_good_runs = g],
                        RETRAINING_START_TIME, START_TIME, now, ALLOW_LIVE)

\* check_promotion has just run in PAPER with every standard criterion met
\* and ALLOW_LIVE false
C1_Witness ==
    /\ ~ALLOW_LIVE
    /\ last_call.op = "check_promotion"
    /\ last_call.mode = "PAPER"
    /\ StandardMet
    /\ ~CoolingDown
    /\ MODE = "PAPER"

\* C2: execute takes the live branch only with MODE LIVE_LIMITED, ALLOW_LIVE
\* true and the risk check passed; with LIVE_LIMITED and ALLOW_LIVE false it
\* executes nothing, neither live nor paper.
C2_LiveOnlyWhenAllowed ==
    last_call.op = "execute" =>
        /\ last_call.branch = "live" =>
              /\ last_call.mode = "LIVE_LIMITED"
              /\ executor_MODE = "LIVE_LIMITED"
              /\ ALLOW_LIVE
              /\ last_call.risk = "passed"
        /\ (last_call.mode = "LIVE_LIMITED" /\ ~ALLOW_LIVE) =>
              (last_call.branch \notin {"live", "paper"} /\ last_call.size = 0)

\* execute has just taken the live branch
C2_Witness ==
    /\ last_call.op = "execute"
    /\ last_call.branch = "live"
    /\ ALLOW_LIVE

\* C3: in live mode a call of Executor.execute adds a live order only if the
\* safety lock is off and both credentials are present; with the lock on or a
\* credential missing it returns success=False with the permission or
\* credential error; no live-mode call creates a paper order or changes the
\* paper balance.
C3_LiveFailsClosed ==
    [][(ch.mode = "live" /\ ch'.calls = ch.calls + 1) =>
         /\ Len(ch'.live_orders) > Len(ch.live_orders) =>
               (~ch.SAFETY_LOCK /\ ch.api_key /\ ch.api_secret)
         /\ (ch.SAFETY_LOCK \/ ~ch.api_key \/ ~ch.api_secret) =>
               /\ ~ch'.result.success
               /\ ch'.result.error \in {"permission", "credentials"}
               /\ ch'.live_orders = ch.live_orders
               /\ ch'.executions = ch.executions
         /\ ch'.paper_orders = ch.paper_orders
         /\ ch'.paper_balance = ch.paper_balance]_vars

\* a live-mode call was refused by the safety lock and nothing was simulated
C3_Witness ==
    /\ ch.mode = "live"
    /\ ch.calls > 0
    /\ ch.SAFETY_LOCK
    /\ ~ch.result.success
    /\ ch.result.error = "permission"
    /\ ch.paper_orders = <<>>
    /\ ch.paper_balance = InitPaperBalance

\* C4: right after a check_demotion call that switched LIVE_LIMITED to PAPER,
\* consecutive_good_runs is 0, also when the call counted a good run first.
C4_DemotionResetsGoodRuns ==
    (last_call.op = "check_demotion" /\ last_call.mode = "LIVE_LIMITED"
        /\ MODE # "LIVE_LIMITED")
    => (MODE = "PAPER" /\ stats.consecutive_good_runs = 0)

\* a check_demotion call counted the session as a good run and then demoted
C4_Witness ==
    /\ last_call.op = "check_demotion"
    /\ last_call.mode = "LIVE_LIMITED"
    /\ last_call.good
    /\ MODE = "PAPER"
    /\ demoted_at = now

\* C5: no call moves MODE into or out of HALTED.
C5_HaltedOnlyExternal ==
    [][(MODE' = "HALTED") <=> (MODE = "HALTED")]_vars

\* check_promotion has run in HALTED with ALLOW_LIVE true and every standard
\* criterion met
C5_Witness ==
    /\ MODE = "HALTED"
    /\ last_call.op = "check_promotion"
    /\ last_call.mode = "HALTED"
    /\ ALLOW_LIVE
    /\ StandardMet

\* C6: an execute call made while MODE is HALTED returns at once: no risk
\* check is evaluated, nothing is executed.
C6_HaltedExecuteNoop ==
    (last_call.op = "execute" /\ last_call.mode = "HALTED")
    => /\ last_call.branch = "halted"
       /\ last_call.risk = "none"
       /\ last_call.size = 0

\* execute has just been called while HALTED
C6_Witness ==
    /\ last_call.op = "execute"
    /\ last_call.mode = "HALTED"
    /\ MODE = "HALTED"
    /\ stats.paper_trades > 0

\* C7: a check_promotion call in PAPER with ALLOW_LIVE true and fewer good
\* runs than skip_after_good_runs promotes exactly when runtime, trade count,
\* win rate and drawdown meet their thresholds and no retraining cooldown is
\* running; 15 trades, 11 wins, 4 losses after 31 minutes meet 30/15/0.70.
C7_StandardPromotionIff ==
    [][(/\ last_call'.op = "check_promotion"
        /\ MODE = "PAPER"
        /\ ALLOW_LIVE
        /\ stats.consecutive_good_runs < PROMOTION_skip_after_good_runs)
       => /\ (MODE' = "LIVE_LIMITED") <=> (StandardMet /\ ~CoolingDown)
          /\ MODE' \in {"PAPER", "LIVE_LIMITED"}
          /\ StandardCriteria(30, 15, 70, RISK_hard_stop_loss, 31,
                              [InitStats EXCEPT !.paper_trades = 15,
                                                !.wins = 11, !.losses = 4])
      ]_vars

\* the standard path has just promoted, at the very minute the runtime
\* reached min_minutes
C7_Witness ==
    /\ last_call.op = "check_promotion"
    /\ last_call.mode = "PAPER"
    /\ last_call.cgr < PROMOTION_skip_after_good_runs
    /\ MODE = "LIVE_LIMITED"
    /\ LIVE_START_TIME = now
    /\ now - START_TIME = PROMOTION_min_minutes

\* C8: a check_demotion call in LIVE_LIMITED, made once MODE has been
\* LIVE_LIMITED for min_live_minutes, demotes and starts the retraining timer
\* when the live win rate is below DEMOTION.min_win_rate or the drawdown has
\* reached hard_stop_loss; a call made earlier never demotes.
C8_DemotionWhenDue ==
    [][(last_call'.op = "check_demotion" /\ MODE = "LIVE_LIMITED")
       => IF now - live_since >= DEMOTION_min_live_minutes
          THEN (LiveRateBelow(DEMOTION_min_win_rate)
                  \/ stats.drawdown >= RISK_hard_stop_loss)
               => (MODE' = "PAPER" /\ RETRAINING_START_TIME' = now)
          ELSE MODE' = "LIVE_LIMITED"
      ]_vars

\* C9: a promotion that follows a demotion at time t happens no earlier than
\* t + retraining_minutes and no earlier than t + min_minutes.
C9_NoPromotionDuringCooldown ==
    [][(MODE = "PAPER" /\ MODE' = "LIVE_LIMITED" /\ demoted_at # None)
       => /\ now >= demoted_at + DEMOTION_retraining_minutes
          /\ now >= demoted_at + PROMOTION_min_minutes
          /\ START_TIME = demoted_at
      ]_vars

\* the controller has been promoted again after a demotion
C9_Witness ==
    /\ demoted_at # None
    /\ MODE = "LIVE_LIMITED"
    /\ last_call.op = "check_promotion"
    /\ last_call.mode = "PAPER"
    /\ stats.mode_switches = 3

\* C10: three full good live sessions in a row, none demoted, leave
\* consecutive_good_runs at skip_after_good_runs.
C10_ThreeGoodSessions ==
    live_sessions = 3 =>
        stats.consecutive_good_runs = PROMOTION_skip_after_good_runs

\* C11: a check_promotion call in PAPER with ALLOW_LIVE true and
\* consecutive_good_runs >= skip_after_good_runs promotes to LIVE_LIMITED at
\* once, whatever the runtime, trade count, win rate and drawdown are, also
\* while a retraining cooldown is running.
C11_FastSkipPromotes ==
    [][(/\ last_call'.op = "check_promotion"
        /\ MODE = "PAPER"
        /\ ALLOW_LIVE
        /\ stats.consecutive_good_runs >= PROMOTION_skip_after_good_runs)
       => /\ MODE' = "LIVE_LIMITED"
          /\ LIVE_START_TIME' = now
          /\ RETRAINING_START_TIME' = RETRAINING_START_TIME
      ]_vars

\* the fast-skip path has just promoted inside a retraining cooldown, with
\* no trade on record and the drawdown above the stop
C11_Witness ==
    /\ last_call.op = "check_promotion"
    /\ last_call.mode = "PAPER"
    /\ last_call.cgr >= PROMOTION_skip_after_good_runs
    /\ MODE = "LIVE_LIMITED"
    /\ CoolingDown
    /\ ~StandardMet
    /\ stats.paper_trades = 0
    /\ stats.drawdown > RISK_hard_stop_loss

\* C12: each check_demotion call in LIVE_LIMITED that finds the live session
\* in progress at least min_live_minutes old, the live win rate at or above
\* good_run_threshold and no demotion criterion met adds exactly one to
\* consecutive_good_runs and leaves MODE LIVE_LIMITED; the session that
\* follows is measured from that call on.
C12_GoodRunEachSession ==
    [][(/\ last_call'.op = "check_demotion"
        /\ MODE = "LIVE_LIMITED"
        /\ session_mark # None
        /\ now - session_mark >= DEMOTION_min_live_minutes
        /\ ~LiveRateBelow(DEMOTION_good_run_threshold)
        /\ stats.drawdown < RISK_hard_stop_loss)
       => /\ stats'.consecutive_good_runs = stats.consecutive_good_runs + 1
          /\ MODE' = "LIVE_LIMITED"
      ]_vars

\* C13: a cycle of the control loop whose check_demotion call finds MODE
\* LIVE_LIMITED for at least min_live_minutes with the live win rate below
\* DEMOTION.min_win_rate or the drawdown at hard_stop_loss ends with MODE
\* PAPER, also when the promotion criteria hold in that cycle; no cycle ends
\* in LIVE_LIMITED while these demotion conditions hold.
C13_DemotionWins ==
    [][(/\ loop.pc = "demotion"
        /\ loop'.pc = "sleep"
        /\ MODE = "LIVE_LIMITED"
        /\ now - live_since >= DEMOTION_min_live_minutes
        /\ (LiveRateBelow(DEMOTION_min_win_rate)
              \/ stats.drawdown >= RISK_hard_stop_loss))
       => MODE' = "PAPER"
      ]_vars

\* C14: risk_check returns False whenever drawdown >= hard_stop_loss, whatever
\* the other fields are, and returns True exactly when drawdown <
\* hard_stop_loss, daily_pnl > -max_daily_loss and trades_last_hour <
\* max_trades_per_hour.
C14_RiskCheck ==
    last_call.op \in {"risk_check", "execute"} /\ last_call.risk # "none" =>
        /\ loop.state.drawdown >= RISK_hard_stop_loss
              => last_call.risk = "failed"
        /\ last_call.risk = "passed" <=>
              /\ loop.state.drawdown < RISK_hard_stop_loss
              /\ loop.state.daily_pnl > 0 - RISK_max_daily_loss
              /\ loop.state.trades_last_hour < RISK_max_trades_per_hour

\* risk_check has refused an account whose only fault is a drawdown exactly
\* at the stop
C14_Witness ==
    /\ last_call.op = "risk_check"
    /\ last_call.risk = "failed"
    /\ loop.state.drawdown = RISK_hard_stop_loss
    /\ loop.state.daily_pnl > 0
    /\ loop.state.trades_last_hour = 0

\* C15: allowed_size(B) is B * capital_cap * max_position for every balance
\* B, in units of 1/10000: 10000 * 0.5 * 0.05 = 250.
C15_AllowedSize ==
    /\ last_call.op = "allowed_size" =>
          /\ last_call.size =
                loop.state.balance * RISK_capital_cap * RISK_max_position
          /\ loop.state.balance = 10000 => last_call.size = 250 * 10000
    /\ (last_call.op = "execute" /\ last_call.branch \in {"paper", "live"}) =>
          last_call.size =
             loop.state.balance * RISK_capital_cap * RISK_max_position

\* allowed_size(10000) has returned 250
C15_Witness ==
    /\ last_call.op = "allowed_size"
    /\ loop.state.balance = 10000
    /\ last_call.size = 250 * 10000

\* C16: Governor.evaluate approves no signal whose confidence is below 0.60
\* or absent, whatever the other signal fields and the governor's counters
\* are; a confidence of exactly 0.60 passes the confidence check.
C16_ConfidenceFloor ==
    /\ ch.decision.approved =>
          (ch.signal.confidence # None /\ ch.signal.confidence >= MIN_CONFIDENCE)
    /\ ch.signal.confidence = MIN_CONFIDENCE =>
          ch.decision.reason # "signal_quality"

\* a signal just below the floor, its size within the limit, has been refused
\* for its quality by a governor that has recorded trades
C16_Witness ==
    /\ ch.signal.confidence = MIN_CONFIDENCE - 1
    /\ ch.signal.position_size = CH_max_position_size
    /\ ~ch.decision.approved
    /\ ch.decision.reason = "signal_quality"
    /\ ch.gov.daily_trades > 0

\* what a cycle of ChimeraBot.run does with the governor's decision: the
\* executor is called exactly when the decision for this cycle's signal is
\* approved=True, with the order made of that signal and decision; after a
\* rejection the executor and both platforms are as they were
RunObeysGovernor ==
    ch'.runs = ch.runs + 1 =>
        /\ ch'.decision = evaluate(ch.gov, ch'.signal, ch.today).decision
        /\ ch'.calls = ch.calls + (IF ch'.decision.approved THEN 1 ELSE 0)
        /\ ch'.run.executed = ch'.decision.approved
        /\ Len(ch'.executions) > Len(ch.executions) =>
              ch'.executions[Len(ch'.executions)].order =
                 prepare_order(ch'.signal, ch'.decision)
        /\ ~ch'.decision.approved =>
              /\ ch'.executions = ch.executions
              /\ ch'.paper_orders = ch.paper_orders
              /\ ch'.live_orders = ch.live_orders
              /\ ch'.paper_balance = ch.paper_balance
              /\ ch'.rate_limit_window = ch.rate_limit_window
              /\ ch'.result = ch.result

\* Executor.execute consults no limit: called on its own in paper mode it
\* fails only on the ledger, also when the governor's counters are at their
\* limits
ClassExecutorChecksNothing ==
    (ch'.calls = ch.calls + 1 /\ ch'.runs = ch.runs /\ ch.mode = "paper") =>
        /\ ch'.gov = ch.gov
        /\ ch'.result.success \/ ch'.result.error = "ledger"

C18_HistoryCountsAttempts ==
    [][ch'.calls = ch.calls + 1 =>
         /\ Len(ch'.executions) = Len(ch.executions) + 1
         /\ SubSeq(ch'.executions, 1, Len(ch.executions)) = ch.executions
         /\ Len(ch'.executions) = ch'.calls
      ]_vars

\* live orders accepted up to time t and younger than RATE_LIMIT_SECONDS then
YoungAccepted(c, t) ==
    Cardinality({j \in DOMAIN c.live_times :
                    /\ c.live_times[j] <= t
                    /\ t - c.live_times[j] < RATE_LIMIT_SECONDS})

\* entries of the rate-limit window younger than RATE_LIMIT_SECONDS at time t
YoungSlots(c, t) ==
    Cardinality({k \in DOMAIN c.rate_limit_window :
                    t - c.rate_limit_window[k] < RATE_LIMIT_SECONDS})

C20_FailuresSurface ==
    [][ch'.runs = ch.runs + 1 =>
         /\ ~ch'.decision.approved =>
               /\ ~ch'.run.success
               /\ ch'.run.reason = "rejected_by_risk_governor"
         /\ (ch'.run.executed /\ ch'.result.error = "permission") =>
               ~ch'.run.success
      ]_vars

\* the counters of stats that record_trade does not touch
OtherStats(s) ==
    <<s.drawdown, s.daily_pnl, s.trades_last_hour, s.mode_switches,
      s.consecutive_good_runs, s.current_session_start, s.can_skip_paper>>

\* C21: a record_trade call adds one to the global trade count and one to
\* wins or to losses; in LIVE_LIMITED it adds one to live_trades and one to
\* live_wins (a win) or live_losses (a loss) as well, and in any other mode
\* it leaves the three live counters as they were.
C21_RecordTradeCounters ==
    [][last_call'.op = "record_trade" =>
        /\ stats'.paper_trades = stats.paper_trades + 1
        /\ \/ stats'.wins = stats.wins + 1 /\ stats'.losses = stats.losses
           \/ stats'.wins = stats.wins /\ stats'.losses = stats.losses + 1
        /\ IF MODE = "LIVE_LIMITED"
           THEN /\ stats'.live_trades = stats.live_trades + 1
                /\ stats'.live_wins - stats.live_wins
                       = stats'.wins - stats.wins
                /\ stats'.live_losses - stats.live_losses
                       = stats'.losses - stats.losses
           ELSE /\ stats'.live_trades = stats.live_trades
                /\ stats'.live_wins = stats.live_wins
                /\ stats'.live_losses = stats.live_losses
        /\ OtherStats(stats') = OtherStats(stats)
        /\ MODE' = MODE]_vars

\* trades were recorded in PAPER, a loss among them, and then, after the
\* promotion, one more loss in LIVE_LIMITED: only that one is a live trade
C21_Witness ==
    /\ last_call.op = "record_trade"
    /\ last_call.mode = "LIVE_LIMITED"
    /\ MODE = "LIVE_LIMITED"
    /\ stats.mode_switches = 1
    /\ stats.live_trades = 1
    /\ stats.live_wins = 0
    /\ stats.live_losses = 1
    /\ stats.losses = 2
    /\ stats.paper_trades = stats.wins + stats.losses
    /\ stats.paper_trades > stats.live_trades

\* the rate r = <<num, den>> is a defined number and equals w / (w + l), or
\* 0 when w + l = 0
IsRateOf(r, w, l) ==
    /\ r[2] > 0
    /\ IF w + l = 0 THEN r[1] = 0
       ELSE r[1] * (w + l) = w * r[2]

\* C22: in every reachable state win_rate() is wins / (wins + losses) and
\* live_win_rate() is live_wins / (live_wins + live_losses); each is 0, and
\* no division by zero happens, when its denominator is 0.
C22_WinRates ==
    /\ IsRateOf(win_rate(stats), stats.wins, stats.losses)
    /\ IsRateOf(live_win_rate(stats), stats.live_wins, stats.live_losses)

\* check_promotion has evaluated win_rate() on 6 wins and 2 losses while no
\* live trade exists yet: one denominator is positive, the other is 0
C22_Witness ==
    /\ last_call.op = "check_promotion"
    /\ last_call.mode = "PAPER"
    /\ stats.wins = 6
    /\ stats.losses = 2
    /\ stats.live_wins + stats.live_losses = 0
    /\ win_rate(stats) = <<6, 8>>
    /\ live_win_rate(stats) = <<0, 1>>

\* a call of Executor.execute in live mode that got as far as the platform
LiveOrderAttempted ==
    /\ ch'.calls = ch.calls + 1
    /\ ch.mode = "live"
    /\ ch'.result.error # "credentials"

\* C23: NDAXLive's constructor raises without api_key or api_secret and
\* NDAXLiveClient's without any of the four NDAX_* values, so a live Executor
\* exists only if both credentials were there when it was built, nothing is
\* executed on an Executor that was not built, and no live order reaches
\* the platform while a credential is missing.
C23_CredentialsAtConstruction ==
    [][/\ (ch.built = "none" /\ ch'.built = "ok" /\ ch'.mode = "live")
            => (ch.api_key /\ ch.api_secret)
       /\ (ch.built = "none" /\ ch'.built = "ValueError")
            => (~ch.api_key \/ ~ch.api_secret)
       /\ (ch.client.built = "none" /\ ch'.client.built = "ok")
            => /\ ch'.client.api_key
               /\ ch'.client.api_secret
               /\ ch'.client.user_id
               /\ ch'.client.account_id
       /\ (ch.client.built = "none" /\ ch'.client.built = "ValueError")
            => \/ ~ch'.client.api_key
               \/ ~ch'.client.api_secret
               \/ ~ch'.client.user_id
               \/ ~ch'.client.account_id
       /\ ch.built = "ValueError" => ch'.built = "ValueError"
       /\ ch'.calls # ch.calls => ch.built = "ok"
       /\ LiveOrderAttempted => (ch.api_key /\ ch.api_secret)]_vars

\* Executor(config) in live mode raised with the secret missing, and
\* NDAXLiveClient() raised with only NDAX_USER_ID missing: no call was made
C23_Witness ==
    /\ ch.built = "ValueError"
    /\ ch.mode = "none"
    /\ ch.api_key
    /\ ~ch.api_secret
    /\ ch.client.built = "ValueError"
    /\ ch.client.api_key
    /\ ch.client.api_secret
    /\ ~ch.client.user_id
    /\ ch.client.account_id
    /\ ch.calls = 0
    /\ ch.live_orders = <<>>

\* C24: an exception raised by a statement of the cycle is taken by the
\* Exception handler, from which the only way on is the head of the loop,
\* always open; main() leaves the loop on a KeyboardInterrupt only.
C24_LoopSurvivesExceptions ==
    [][/\ (loop.pc \in TryBlock /\ loop'.raised = "Exception")
            => loop'.pc = "except"
       /\ loop.pc = "except"
            => /\ ENABLED MainRecover
               /\ \/ loop'.pc = "decide"
                  \/ loop'.pc = "ended" /\ loop'.raised = "KeyboardInterrupt"
       /\ loop'.pc = "ended" => loop'.raised = "KeyboardInterrupt"
       /\ loop.pc = "ended" => loop'.pc = "ended"]_vars

\* a cycle of a live session raised an exception after trades were recorded;
\* the handler has run and the loop is at the head of the next cycle
C24_Witness ==
    /\ loop.pc = "decide"
    /\ loop.raised = "handled"
    /\ MODE = "LIVE_LIMITED"
    /\ stats.mode_switches = 1
    /\ stats.live_trades > 0
    /\ now > LIVE_START_TIME

\* C25: an execute call whose risk check passed takes the branch of the
\* mode in force at the call (config.MODE): the live branch in LIVE_LIMITED
\* with ALLOW_LIVE, also right after a promotion, and the paper branch in
\* PAPER, also right after a demotion; so the trade that record_trade is
\* about to record was executed under the mode it is recorded in.
C25_ExecutorUsesCurrentMode ==
    (last_call.op = "execute" /\ last_call.risk = "passed") =>
        /\ last_call.mode = "PAPER" => last_call.branch = "paper"
        /\ (last_call.mode = "LIVE_LIMITED" /\ ALLOW_LIVE)
              => last_call.branch = "live"
        /\ (loop.pc = "record" /\ ALLOW_LIVE)
              => (MODE = "LIVE_LIMITED" <=> last_call.branch = "live")

\* C26: a check_promotion call made while MODE is not PAPER, and a
\* check_demotion call made while MODE is not LIVE_LIMITED, leave MODE, the
\* three timers and every entry of stats as they were.
C26_ChecksOnlyInTheirMode ==
    [][(\/ last_call'.op = "check_promotion" /\ MODE # "PAPER"
        \/ last_call'.op = "check_demotion" /\ MODE # "LIVE_LIMITED")
       => UNCHANGED <<MODE, START_TIME, LIVE_START_TIME,
                      RETRAINING_START_TIME, stats>>]_vars

\* check_promotion was called in a live session entered by promotion while
\* the standard criteria held and ALLOW_LIVE was true
C26_Witness ==
    /\ last_call.op = "check_promotion"
    /\ last_call.mode = "LIVE_LIMITED"
    /\ MODE = "LIVE_LIMITED"
    /\ ALLOW_LIVE
    /\ StandardMet
    /\ stats.mode_switches = 1
    /\ LIVE_START_TIME # None
    /\ now > LIVE_START_TIME

\* C27: in every reachable state RETRAINING_START_TIME is set only while
\* MODE is PAPER: it is None in LIVE_LIMITED (and in HALTED), by whichever
\* path the session was entered.
C27_RetrainingOnlyInPaper ==
    RETRAINING_START_TIME # None => MODE = "PAPER"

\* a session was promoted, demoted and, once the cooldown was over,
\* promoted again: the timer the demotion had set is cleared
C27_Witness ==
    /\ MODE = "LIVE_LIMITED"
    /\ stats.mode_switches = 3
    /\ demoted_at # None
    /\ LIVE_START_TIME >= demoted_at + DEMOTION_retraining_minutes
    /\ RETRAINING_START_TIME = None

\* a step of Governor.evaluate: the day is the same and no trade was recorded
EvaluateStep ==
    /\ ch'.today = ch.today
    /\ ch'.gov.daily_trades # ch.gov.daily_trades + 1
    /\ ch'.runs = ch.runs
    /\ ch'.calls = ch.calls

\* the checks that fail for governor g and signal sig, in evaluate's order
FailingChecks(g, sig) ==
    <<g.daily_trades >= CH_max_trades_per_day,
      g.daily_loss >= CH_max_daily_loss,
      g.open_positions >= CH_max_open_positions,
      sig.position_size # None /\ sig.position_size > CH_max_position_size,
      sig.confidence = None \/ sig.confidence < MIN_CONFIDENCE>>

CheckNames == <<"daily_trade_limit", "daily_loss_limit", "position_limit",
                "position_size", "signal_quality">>

\* C28: Governor.evaluate approves exactly when none of the five checks
\* fails on the counters as the daily reset left them, and otherwise rejects
\* with the reason of the first failing check in the order daily trade
\* limit, daily loss limit, open-position limit, position size, confidence.
C28_FirstFailingCheck ==
    [][EvaluateStep =>
        LET f == FailingChecks(ch'.gov, ch'.signal)
            first == IF f[1] THEN 1 ELSE IF f[2] THEN 2 ELSE IF f[3] THEN 3
                     ELSE IF f[4] THEN 4 ELSE IF f[5] THEN 5 ELSE 0
        IN  /\ ch'.decision.approved <=> first = 0
            /\ first # 0 => ch'.decision.reason = CheckNames[first]]_vars

\* all five checks fail at once and the decision names the daily trade limit
C28_Witness ==
    /\ ch.gov.daily_trades = CH_max_trades_per_day
    /\ ch.gov.daily_loss >= CH_max_daily_loss
    /\ ch.gov.open_positions = CH_max_open_positions
    /\ ch.signal.position_size = CH_max_position_size + 1
    /\ ch.signal.confidence = MIN_CONFIDENCE - 1
    /\ ~ch.decision.approved
    /\ ch.decision.reason = "daily_trade_limit"

C31_MissingFieldNeverApproved ==
    ch.decision.approved =>
        /\ ch.signal.confidence # None
        /\ ch.signal.price # None
        /\ ch.signal.position_size # None

\* C32: in paper mode every Executor.execute call succeeds, whatever the
\* order's symbol, action, price and quantity: NDAXTest.place_order never
\* raises, and every order of the calls made so far is stored.
C32_PaperNeverFails ==
    (ch.mode = "paper" /\ ch.calls > 0) =>
        /\ ch.result.success
        /\ ch.result.venue = "paper"
        /\ Len(ch.paper_orders) = ch.calls
        /\ Len(ch.executions) = ch.calls

C34_LiveSessionTimed ==
    MODE = "LIVE_LIMITED" => LIVE_START_TIME # None

\* the six trade counters of stats
TradeCounters(s) ==
    <<s.paper_trades, s.wins, s.losses, s.live_trades, s.live_wins,
      s.live_losses>>

\* C35: a cycle of main() whose execute call did nothing (MODE HALTED, the
\* risk check failed, or no branch applied) records no trade: the step that
\* follows it leaves the trade counters, and so both win rates, unchanged.
C35_OnlyExecutedTradesCount ==
    [][(/\ loop.pc = "record"
        /\ last_call.op = "execute"
        /\ last_call.branch \notin {"paper", "live"})
       => /\ TradeCounters(stats') = TradeCounters(stats)
          /\ win_rate(stats') = win_rate(stats)
          /\ live_win_rate(stats') = live_win_rate(stats)]_vars

\* C36: the governor's counters account for every order the executor
\* executed in a ChimeraBot.run cycle: the cycle adds one to daily_trades
\* (counted from 0 on a new day) and, for a buy, one to open_positions, so
\* that the daily and the open-position limits bound what is executed.
C36_GovernorCountsExecutions ==
    [][Len(ch'.executions) = Len(ch.executions) + 1 =>
        /\ ch'.gov.daily_trades =
              (IF ch.today > ch.gov.last_reset THEN 0
               ELSE ch.gov.daily_trades) + 1
        /\ ch'.signal.action = "buy" =>
              ch'.gov.open_positions = ch.gov.open_positions + 1]_vars

\* C37: in the main loop at most max_trades_per_hour BUY or SELL signals are
\* executed (paper or live) between two hourly resets: an execute that finds
\* state.trades_last_hour at the cap does nothing, and the counter only
\* goes back, to zero, at the hour change
C37_HourlyCap ==
    [][/\ loop'.executed <= RISK_max_trades_per_hour
       /\ (loop.pc = "execute" /\ last_call'.op = "execute"
            /\ loop.state.trades_last_hour >= RISK_max_trades_per_hour) =>
             /\ last_call'.branch \notin {"paper", "live"}
             /\ loop'.executed = loop.executed
       /\ loop'.state.trades_last_hour < loop.state.trades_last_hour =>
             /\ loop.pc = "sleep"
             /\ Hour(now) # loop.last_hour
             /\ loop'.state.trades_last_hour = 0]_vars

\* the cap's worth of trades was executed this hour and the next BUY or SELL
\* has just been refused
C37_Witness ==
    /\ loop.pc = "record"
    /\ last_call.op = "execute"
    /\ last_call.branch = "rejected"
    /\ loop.state.trades_last_hour = RISK_max_trades_per_hour
    /\ loop.executed = RISK_max_trades_per_hour
    /\ Hour(now) = loop.last_hour

\* C38: check_promotion and check_demotion leave the six trade counters as
\* they are, also when they switch MODE, so both win rates read after a
\* transition are those of all trades recorded since the start
C38_TransitionsKeepCounters ==
    [][last_call'.op \in {"check_promotion", "check_demotion"} =>
         /\ TradeCounters(stats') = TradeCounters(stats)
         /\ win_rate(stats') = win_rate(stats)
         /\ live_win_rate(stats') = live_win_rate(stats)]_vars

\* a demotion has just been performed and the paper and live records of the
\* sessions before it are still there
C38_Witness ==
    /\ last_call.op = "check_demotion"
    /\ last_call.mode = "LIVE_LIMITED"
    /\ MODE = "PAPER"
    /\ stats.paper_trades >= PROMOTION_min_trades
    /\ stats.live_trades > 0

\* C39: stats.mode_switches goes up by one with every change of MODE and
\* with nothing else, only check_promotion and check_demotion change MODE,
\* and in a process started in PAPER the count is even exactly in PAPER
C39_SwitchesCountTransitions ==
    [][/\ stats'.mode_switches =
             stats.mode_switches + (IF MODE' # MODE THEN 1 ELSE 0)
       /\ MODE' # MODE =>
             last_call'.op \in {"check_promotion", "check_demotion"}
       /\ (stats'.mode_switches % 2 = 0) <=> (MODE' = "PAPER")]_vars

\* promoted, demoted and back in PAPER with two switches counted
C39_Witness ==
    /\ MODE = "PAPER"
    /\ stats.mode_switches = 2
    /\ last_call.op = "check_demotion"
    /\ last_call.mode = "LIVE_LIMITED"


====
